---- MODULE Spec2Model ----
(***************************************************************************)
(* Model of the UPB/PIM driver of castle1724: the Conn type of package upb *)
(* (its serve control loop, the reader goroutine, Send and Close) together *)
(* with the message-report sink rxUPB of the main package.                 *)
(***************************************************************************)
EXTENDS Integers, Sequences, FiniteSets, TLC

\* ------------------------------------------------------------------------
\* Bounds of the model.
NumCallers == 2   \* goroutines of the host (HTTP handlers), one Send each
MaxTasks == 1     \* goroutines spawned by the rxUPB sink that call Send
MaxFrames == 2    \* frames the reader scans in one run
MaxArgs == 2      \* arguments of a message built by Message, the long list apart
MaxLen == 3       \* bytes of a message whose checksum is computed and checked
MaxData == 5      \* bytes in the buffer the scanner hands to scanMessage

\* Program constants.
NetID == 180      \* const netID = 0xB4
TXUPB == 20       \* "Transmit UPB Message" op-code 0x14
SrcHost == 255    \* source id of the host, 0xFF
AckPulse == 16    \* control bit 0x10, "Acknowledge with an ACK Pulse"
HeaderLen == 6    \* bytes of the packet header
MinReport == 7    \* shortest message report, header plus checksum

Callers == 1..NumCallers
Tasks == (NumCallers + 1)..(NumCallers + MaxTasks)
Procs == Callers \cup Tasks
Ids == 1..(NumCallers + MaxTasks)

Nil == [id |-> 0, msg |-> <<>>]
NoResult == [for |-> 0, err |-> "none"]

\* ------------------------------------------------------------------------
\* Codec.

RECURSIVE SumBytes(_)
SumBytes(msg) == IF msg = <<>> THEN 0 ELSE (Head(msg) + SumBytes(Tail(msg))) % 256

\* Checksum: the 2's complement of the byte sum, truncated to 8 bits.
Checksum(msg) == (256 - SumBytes(msg)) % 256

HexDigits == <<"0","1","2","3","4","5","6","7","8","9","A","B","C","D","E","F">>
LowerDigits == <<"a","b","c","d","e","f">>

\* Bug variant: the byte is rendered by %02x, in lowercase.
HexByteLower(b) ==
  LET d(v) == IF v < 10 THEN HexDigits[v + 1] ELSE LowerDigits[v - 9] IN
  <<d(b \div 16), d(b % 16)>>

\* One byte rendered by %02X: two uppercase hexadecimal digits.
HexByte(b) == <<HexDigits[(b \div 16) + 1], HexDigits[(b % 16) + 1]>>

RECURSIVE HexEncode(_)
HexEncode(msg) == IF msg = <<>> THEN <<>> ELSE HexByte(Head(msg)) \o HexEncode(Tail(msg))

\* Value of one hexadecimal digit as hex.DecodeString reads it, -1 if it is none.
HexVal(c) ==
  IF \E i \in 1..16 : HexDigits[i] = c
    THEN (CHOOSE i \in 1..16 : HexDigits[i] = c) - 1
    ELSE IF \E i \in 1..6 : LowerDigits[i] = c
      THEN (CHOOSE i \in 1..6 : LowerDigits[i] = c) + 9
      ELSE -1

\* hex.DecodeString succeeds on an even number of hexadecimal digits only.
HexOk(s) == Len(s) % 2 = 0 /\ \A i \in 1..Len(s) : HexVal(s[i]) >= 0

HexDecode(s) == [i \in 1..(Len(s) \div 2) |-> HexVal(s[2 * i - 1]) * 16 + HexVal(s[2 * i])]

\* Bug variant: the length byte leaves out the checksum byte.
MessageNoSum(net, addr, cmd, args) ==
  <<(HeaderLen + Len(args)) % 256, AckPulse, net, addr, SrcHost, cmd>> \o args

\* Conn.Message: the packet header followed by the arguments.
Message(net, addr, cmd, args) ==
  <<(HeaderLen + Len(args) + 1) % 256, AckPulse, net, addr, SrcHost, cmd>> \o args

\* Conn.Goto and Conn.ReportState.
Goto(net, id, val) == Message(net, id, 34, <<val>>)

ReportState(net, id) == Message(net, id, 48, <<>>)

\* The carriage return that ends every frame in both directions.
CR == "\r"

\* txUPB: what one call writes to the port for a message of at least one
\* byte: the op-code as one character, the message and its checksum in
\* uppercase hexadecimal, and a carriage return.
TxFrame(msg) ==
  [op |-> TXUPB, hex |-> HexEncode(msg) \o HexByte(Checksum(msg)), end |-> CR]

\* Bug variant: the last byte is compared with the checksum of the whole
\* slice, itself included.
SumOkWhole(raw) == Checksum(raw) = raw[Len(raw)]

\* The checksum test of serve on a decoded report: the last byte against the
\* checksum of the bytes before it.
SumOk(raw) == Checksum(SubSeq(raw, 1, Len(raw) - 1)) = raw[Len(raw)]

\* bytes.IndexByte(data, '\r') counted from 1, 0 when there is none.
IndexCR(data) ==
  IF \E i \in 1..Len(data) : data[i] = CR
    THEN CHOOSE i \in 1..Len(data) : data[i] = CR /\ \A j \in 1..(i - 1) : data[j] # CR
    ELSE 0

\* Bug variant: the carriage return is left in the token.
scanMessageKeepCR(data, atEOF) ==
  LET i == IndexCR(data) IN
  IF i > 0
    THEN [advance |-> i, hasToken |-> TRUE, token |-> SubSeq(data, 1, i), err |-> "nil"]
  ELSE IF atEOF /\ Len(data) > 0
    THEN [advance |-> Len(data), hasToken |-> FALSE, token |-> <<>>, err |-> "errTruncated"]
  ELSE [advance |-> 0, hasToken |-> FALSE, token |-> <<>>, err |-> "nil"]

\* scanMessage: the split function of the reader's bufio.Scanner.
scanMessage(data, atEOF) ==
  LET i == IndexCR(data) IN
  IF i > 0
    THEN [advance |-> i, hasToken |-> TRUE, token |-> SubSeq(data, 1, i - 1), err |-> "nil"]
  ELSE IF atEOF /\ Len(data) > 0
    THEN [advance |-> Len(data), hasToken |-> FALSE, token |-> <<>>, err |-> "errTruncated"]
  ELSE [advance |-> 0, hasToken |-> FALSE, token |-> <<>>, err |-> "nil"]

\* ------------------------------------------------------------------------
\* Inputs: the messages callers send and the frames the PIM produces.

\* Messages handed to Send: built by Message (ack pulse requested), the same
\* with the ack-pulse bit clear, and an empty message (sendHandler passes on
\* whatever decodes from the form value).
Msgs == { Message(NetID, 1, 34, <<100>>), <<7, 0, NetID, 1, SrcHost, 48>>, <<>> }

ReportFrame(msg, sum) == <<"P", "U">> \o HexEncode(msg \o <<sum>>)

RepLink == <<135, 0, NetID, 11, SrcHost, 32>>
RepState == <<8, 0, NetID, SrcHost, 11, 134, 1>>
RepStateShort == <<7, 0, NetID, SrcHost, 11, 134>>
RepOther == <<7, 0, NetID, 1, 2, 48>>
RepRetx == <<7, 1, NetID, 1, 2, 48>>
RepBadLen == <<9, 0, NetID, 1, 2, 48>>
RepShort == <<6, 0, NetID, 1, 2>>

StatusFrames ==
  { <<"P", "A">>, <<"P", "B">>, <<"P", "E">>, <<"P", "K">>, <<"P", "N">> }

OddFrames ==
  { <<>>, <<"P">>, <<"Q", "K">>, <<"P", "Z">>, <<"P", "K", "X">>, <<"P", "U">>,
    <<"P", "U", "0">>, <<"P", "U", "0", "G">> }

ReportFrames ==
  { ReportFrame(m, Checksum(m)) :
      m \in {RepLink, RepState, RepStateShort, RepOther, RepRetx, RepBadLen, RepShort} }
  \cup { ReportFrame(RepOther, (Checksum(RepOther) + 1) % 256),
         <<"P", "U", "0", "7", "0", "0", "b", "4", "0", "1", "0", "2", "3", "0", "1", "2">> }

Frames == StatusFrames \cup OddFrames \cup ReportFrames

\* ------------------------------------------------------------------------
\* Classification of inbound frames by serve.

\* Bug variant: the first character is not looked at.
IsPIMAny(s) == Len(s) >= 2

\* A frame serve looks at further: at least two characters, the first a 'P'.
IsPIM(s) == Len(s) >= 2 /\ s[1] = "P"

Code(s) == s[2]

Payload(s) == SubSeq(s, 3, Len(s))

NoReport == [ok |-> FALSE, msg |-> <<>>]

\* The length test of case 'U': the low 5 bits of byte 0 against the number
\* of decoded bytes, checksum included. A mismatch is logged, nothing else.
LenConsistent(raw) == raw[1] % 32 = Len(raw)

\* Bug variant: a report with an inconsistent length is dropped.
ReportMsgStrictLen(s) ==
  IF ~HexOk(Payload(s)) THEN NoReport
  ELSE LET raw == HexDecode(Payload(s)) IN
    IF Len(raw) < MinReport THEN NoReport
    ELSE IF ~LenConsistent(raw) THEN NoReport
    ELSE LET msg == SubSeq(raw, 1, Len(raw) - 1)
             sum == raw[Len(raw)] IN
      IF Checksum(msg) # sum THEN NoReport
      ELSE IF msg[2] % 4 # 0 THEN NoReport
      ELSE [ok |-> TRUE, msg |-> msg]

\* Bug variant: retransmitted reports are passed on as well.
ReportMsgRetx(s) ==
  IF ~HexOk(Payload(s)) THEN NoReport
  ELSE LET raw == HexDecode(Payload(s)) IN
    IF Len(raw) < MinReport THEN NoReport
    ELSE LET msg == SubSeq(raw, 1, Len(raw) - 1)
             sum == raw[Len(raw)] IN
      IF Checksum(msg) # sum THEN NoReport
      ELSE [ok |-> TRUE, msg |-> msg]

\* case 'U': the message handed to c.rx, or NoReport when the frame is dropped.
ReportMsg(s) ==
  IF ~HexOk(Payload(s)) THEN NoReport
  ELSE LET raw == HexDecode(Payload(s)) IN
    IF Len(raw) < MinReport THEN NoReport
    ELSE LET msg == SubSeq(raw, 1, Len(raw) - 1)
             sum == raw[Len(raw)] IN
      IF Checksum(msg) # sum THEN NoReport
      ELSE IF msg[2] % 4 # 0 THEN NoReport
      ELSE [ok |-> TRUE, msg |-> msg]

\* Bit 0x10 of the control byte.
WantsAck(msg) == (msg[2] \div AckPulse) % 2 = 1

\* Bug variant: the test of the ack-pulse bit is inverted.
PimErrInverted(code, msg) ==
  CASE code = "B" -> "errPIMBusy"
    [] code = "E" -> "errPIMError"
    [] code = "K" -> "nil"
    [] code = "N" -> IF WantsAck(msg) THEN "nil" ELSE "errMissingAck"

\* The error serve hands to respond for a status code.
PimErr(code, msg) ==
  CASE code = "B" -> "errPIMBusy"
    [] code = "E" -> "errPIMError"
    [] code = "K" -> "nil"
    [] code = "N" -> IF WantsAck(msg) THEN "errMissingAck" ELSE "nil"

\* rxUPB: what the goroutine it starts does with a report.
NoReply == [kind |-> "none", msg |-> <<>>]

RxReply(msg) ==
  IF msg[1] \div 128 = 1 /\ msg[3] = NetID /\ msg[4] = 11 /\ msg[6] = 32
    THEN [kind |-> "send", msg |-> <<7, 16, NetID, 11, SrcHost, 48>>]
  ELSE IF msg[1] \div 128 = 0 /\ msg[3] = NetID /\ msg[4] = SrcHost /\ msg[5] = 11 /\ msg[6] = 134
    THEN IF Len(msg) < 7 THEN [kind |-> "panic", msg |-> <<>>]
         ELSE [kind |-> "send",
               msg |-> <<7, 16, NetID, 11, SrcHost, IF msg[7] # 0 THEN 33 ELSE 32>>]
  ELSE NoReply

\* ------------------------------------------------------------------------
\* State.

VARIABLES
  pc,          \* per goroutine calling Send: where it is
  req,         \* per goroutine: the req it made (id 0: none yet)
  result,      \* per goroutine: what its Send returned, and for which request
  nextId,      \* requests are numbered in the order they reach c.wr
  wrq,         \* c.wr: the goroutines blocked in "c.wr <- req", oldest first
  wrClosed,    \* c.wr has been closed
  rq,          \* serve: the current outgoing request, Nil when there is none
  servePc,     \* serve: "select", "tx", "rxSend" or "panicked"
  crashed,     \* an unrecovered panic has ended the process
  rdPc,        \* reader goroutine: "scan", "send" or "closed"
  rdFrame,     \* the frame the reader is handing to serve
  nframes,     \* frames scanned so far
  written,     \* the writes to the port in order: request id, write succeeded
  outstanding, \* ids of requests dequeued and not yet responded to
  got,         \* per response channel: outcomes received on it
  rxKind,      \* Config.RX: "nop", "rxUPB" or "sendSync"
  sinkCount,   \* calls of c.rx so far
  sinkLast,    \* argument of the last call of c.rx
  pin,         \* a codec or framer function under test: its name and arguments
  pout         \* what that function has produced so far

sessionVars == <<pc, req, result, nextId, wrq, wrClosed, rq, servePc, crashed, rdPc,
                 rdFrame, nframes, written, outstanding, got, rxKind, sinkCount, sinkLast>>

pureVars == <<pin, pout>>

vars == <<sessionVars, pureVars>>

callerVars == <<pc, req, result, got>>
readerVars == <<rdPc, rdFrame, nframes>>
sinkVars == <<sinkCount, sinkLast>>

\* Config.RX: nil (replaced by a no-op), rxUPB of the main package, or a
\* callback that calls Send itself and waits for the result.
SinkKinds == {"nop", "rxUPB", "sendSync"}

\* No codec or framer function is under test.
NoPure == [fn |-> "none"]

\* The state Client leaves behind, for a given Config.RX.
Connected(rx) ==
  /\ pc = [p \in Procs |-> IF p \in Callers THEN "idle" ELSE "unborn"]
  /\ req = [p \in Procs |-> Nil]
  /\ result = [p \in Procs |-> NoResult]
  /\ nextId = 1
  /\ wrq = <<>>
  /\ wrClosed = FALSE
  /\ rq = Nil
  /\ servePc = "select"
  /\ crashed = FALSE
  /\ rdPc = "scan"
  /\ rdFrame = <<>>
  /\ nframes = 0
  /\ written = <<>>
  /\ outstanding = {}
  /\ got = [i \in Ids |-> 0]
  /\ rxKind = rx
  /\ sinkCount = 0
  /\ sinkLast = <<>>

Init ==
  /\ \E rx \in SinkKinds : Connected(rx)
  /\ pin = NoPure
  /\ pout = NoPure

\* ------------------------------------------------------------------------
\* Send.

\* A panic in a Send caller unwinds into the caller; in a goroutine started
\* by rxUPB nothing recovers it and the process ends.
Fatal(p) == p \in Tasks

\* ch := make(chan error); c.wr <- &req{ch, msg}: the goroutine blocks on the
\* unbuffered channel until serve receives, or panics if c.wr is closed.
Enqueue(p, m) ==
  /\ ~crashed
  /\ IF wrClosed
       THEN /\ pc' = [pc EXCEPT ![p] = "panicSendClosed"]
            /\ req' = [req EXCEPT ![p] = [id |-> 0, msg |-> m]]
            /\ crashed' = Fatal(p)
            /\ UNCHANGED <<nextId, wrq>>
       ELSE /\ pc' = [pc EXCEPT ![p] = "sending"]
            /\ req' = [req EXCEPT ![p] = [id |-> nextId, msg |-> m]]
            /\ nextId' = nextId + 1
            /\ wrq' = Append(wrq, p)
            /\ UNCHANGED crashed
  /\ UNCHANGED <<result, wrClosed, rq, servePc, written, outstanding, got, rxKind>>
  /\ UNCHANGED readerVars
  /\ UNCHANGED sinkVars
  /\ UNCHANGED pureVars

Send(p, m) ==
  /\ pc[p] = "idle"
  /\ Enqueue(p, m)

\* return <-ch: the goroutine parks on its response channel.
SendWait(p) ==
  /\ ~crashed
  /\ pc[p] = "sent"
  /\ pc' = [pc EXCEPT ![p] = "recv"]
  /\ UNCHANGED <<req, result, nextId, wrq, wrClosed, rq, servePc, crashed, written,
                 outstanding, got, rxKind>>
  /\ UNCHANGED readerVars
  /\ UNCHANGED sinkVars
  /\ UNCHANGED pureVars

\* The goroutine rxUPB started runs: it sends its reply, or indexes past the
\* end of a six-byte report.
TaskRun(t) ==
  /\ pc[t] = "start"
  /\ IF RxReply(req[t].msg).kind = "send"
       THEN Enqueue(t, RxReply(req[t].msg).msg)
       ELSE /\ ~crashed
            /\ pc' = [pc EXCEPT ![t] = "panicIndex"]
            /\ crashed' = TRUE
            /\ UNCHANGED <<req, result, nextId, wrq, wrClosed, rq, servePc, written,
                           outstanding, got, rxKind>>
            /\ UNCHANGED readerVars
            /\ UNCHANGED sinkVars
            /\ UNCHANGED pureVars
  /\ UNCHANGED pureVars

\* close(c.wr): every goroutine blocked sending on c.wr panics; closing a
\* closed channel panics in the caller of Close.
Close ==
  /\ ~crashed
  /\ wrClosed' = TRUE
  /\ wrq' = <<>>
  /\ pc' = [p \in Procs |-> IF pc[p] = "sending" THEN "panicBlocked" ELSE pc[p]]
  /\ servePc' = IF servePc = "rxSend" THEN "panicked" ELSE servePc
  /\ crashed' = (wrClosed \/ servePc = "rxSend"
                 \/ \E p \in Tasks : pc[p] = "sending")
  /\ UNCHANGED <<req, result, nextId, rq, written, outstanding, got, rxKind>>
  /\ UNCHANGED readerVars
  /\ UNCHANGED sinkVars
  /\ UNCHANGED pureVars

\* ------------------------------------------------------------------------
\* The reader goroutine.

\* A report for which rxUPB starts a goroutine that goes on to use the Conn.
Spawns(f) ==
  /\ IsPIM(f) /\ Code(f) = "U" /\ ReportMsg(f).ok
  /\ RxReply(ReportMsg(f).msg).kind # "none"

\* scan.Scan() returns the next frame of the port.
ReaderScan(f) ==
  /\ f \in Frames
  /\ ~crashed
  /\ rdPc = "scan"
  /\ nframes < MaxFrames
  /\ (rxKind = "rxUPB" /\ Spawns(f)) => \E t \in Tasks : pc[t] = "unborn"
  /\ rdPc' = "send"
  /\ rdFrame' = f
  /\ nframes' = nframes + 1
  /\ UNCHANGED <<nextId, wrq, wrClosed, rq, servePc, crashed, written, outstanding, rxKind>>
  /\ UNCHANGED callerVars
  /\ UNCHANGED sinkVars
  /\ UNCHANGED pureVars

\* scan.Scan() returns false (end of stream, read error, truncated frame):
\* the reader closes rd and ends.
ReaderEnd ==
  /\ ~crashed
  /\ rdPc = "scan"
  /\ rdPc' = "closed"
  /\ UNCHANGED <<rdFrame, nframes>>
  /\ UNCHANGED <<nextId, wrq, wrClosed, rq, servePc, crashed, written, outstanding, rxKind>>
  /\ UNCHANGED callerVars
  /\ UNCHANGED sinkVars
  /\ UNCHANGED pureVars

\* ------------------------------------------------------------------------
\* serve, the control loop.

\* Bug variant: wr is c.wr in every iteration.
WrEnabledAlways(r) == TRUE

\* wr is c.wr only while there is no current request, nil otherwise.
WrEnabled(r) == r = Nil

\* Bug variant: the most recently blocked sender is served first.
NewestSender(q) == q[Len(q)]

\* case r := <-wr takes the request of the longest-blocked sender.
NextSender(q) == Head(q)

\* Bug variant: respond sends on the channel of another request whose caller
\* is waiting, when there is one.
RespSlotOther(r) ==
  IF \E p \in Procs : pc[p] = "recv" /\ req[p].id # r.id
    THEN req[CHOOSE p \in Procs : pc[p] = "recv" /\ req[p].id # r.id].id
    ELSE r.id

\* The channel respond sends on: the resp of the current request.
RespSlot(r) == r.id

\* The goroutine parked on channel slot, if there is one.
Receivers(slot) == {p \in Procs : pc[p] = "recv" /\ req[p].id = slot}

\* respond(err) for the current request r: a non-blocking send on r.resp,
\* then rq = nil.
\* Bug variant: respond sends on rq.resp without a default branch, so the
\* request stays current until its caller is there to receive.
RespondBlocking(r, err) ==
  IF Receivers(RespSlot(r)) # {}
    THEN LET p == CHOOSE p \in Receivers(RespSlot(r)) : TRUE IN
         /\ pc' = [pc EXCEPT ![p] = "done"]
         /\ result' = [result EXCEPT ![p] = [for |-> r.id, err |-> err]]
         /\ got' = [got EXCEPT ![req[p].id] = @ + 1]
         /\ rq' = Nil
         /\ outstanding' = outstanding \ {r.id}
         /\ UNCHANGED req
    ELSE UNCHANGED <<pc, req, result, got, rq, outstanding>>

\* respond(err): a non-blocking send on rq.resp, then rq = nil.
Respond(r, err) ==
  /\ IF Receivers(RespSlot(r)) # {}
       THEN LET p == CHOOSE p \in Receivers(RespSlot(r)) : TRUE IN
            /\ pc' = [pc EXCEPT ![p] = "done"]
            /\ result' = [result EXCEPT ![p] = [for |-> r.id, err |-> err]]
            /\ got' = [got EXCEPT ![req[p].id] = @ + 1]
            /\ UNCHANGED req
       ELSE UNCHANGED callerVars
  /\ rq' = Nil
  /\ outstanding' = outstanding \ {r.id}

Panic ==
  /\ servePc' = "panicked"
  /\ crashed' = TRUE

\* case r := <-wr with a sender blocked on c.wr: rq = r.
ServeDequeue ==
  /\ ~crashed
  /\ servePc = "select"
  /\ WrEnabled(rq)
  /\ wrq # <<>>
  /\ LET p == NextSender(wrq) IN
     /\ rq' = req[p]
     /\ pc' = [pc EXCEPT ![p] = "sent"]
     /\ wrq' = SelectSeq(wrq, LAMBDA x : x # p)
     /\ outstanding' = outstanding \cup {req[p].id}
  /\ servePc' = "tx"
  /\ UNCHANGED <<req, result, got, nextId, wrClosed, crashed, written, rxKind>>
  /\ UNCHANGED readerVars
  /\ UNCHANGED sinkVars
  /\ UNCHANGED pureVars

\* Bug variant: a failed write is not responded to.
ServeWriteKeep(ok) ==
  /\ ~crashed
  /\ servePc = "tx"
  /\ written' = Append(written, [id |-> rq.id, ok |-> ok])
  /\ servePc' = "select"
  /\ UNCHANGED <<rq, outstanding, pc, req, result, got>>
  /\ UNCHANGED <<nextId, wrq, wrClosed, crashed, rxKind>>
  /\ UNCHANGED readerVars
  /\ UNCHANGED sinkVars
  /\ UNCHANGED pureVars

\* c.txUPB(rq.msg): the write to the port succeeds or fails; on failure
\* respond(err).
ServeWrite(ok) ==
  /\ ~crashed
  /\ servePc = "tx"
  /\ written' = Append(written, [id |-> rq.id, ok |-> ok])
  /\ servePc' = "select"
  /\ IF ok
       THEN UNCHANGED <<rq, outstanding, pc, req, result, got>>
       ELSE Respond(rq, "errWrite")
  /\ UNCHANGED <<nextId, wrq, wrClosed, crashed, rxKind>>
  /\ UNCHANGED readerVars
  /\ UNCHANGED sinkVars
  /\ UNCHANGED pureVars

\* case r := <-wr on the closed c.wr: r is nil, and rq.msg dereferences it.
ServeRecvClosed ==
  /\ ~crashed
  /\ servePc = "select"
  /\ WrEnabled(rq)
  /\ wrClosed
  /\ Panic
  /\ UNCHANGED <<nextId, wrq, wrClosed, rq, written, outstanding, rxKind>>
  /\ UNCHANGED callerVars
  /\ UNCHANGED readerVars
  /\ UNCHANGED sinkVars
  /\ UNCHANGED pureVars

\* serve takes the reader's frame off rd.
TakeFrame ==
  /\ ~crashed
  /\ servePc = "select"
  /\ rdPc = "send"
  /\ rdPc' = "scan"
  /\ rdFrame' = <<>>
  /\ UNCHANGED nframes

\* Bug variant: PA is taken for the answer to the current request.
ServeSkipAccept ==
  /\ TakeFrame
  /\ IF IsPIM(rdFrame) THEN Code(rdFrame) \notin {"B", "E", "K", "N", "U"} ELSE TRUE
  /\ IF IsPIM(rdFrame) /\ Code(rdFrame) = "A" /\ rq # Nil
       THEN rq' = Nil /\ outstanding' = {}
       ELSE UNCHANGED <<rq, outstanding>>
  /\ UNCHANGED <<nextId, wrq, wrClosed, servePc, crashed, written, rxKind>>
  /\ UNCHANGED callerVars
  /\ UNCHANGED sinkVars
  /\ UNCHANGED pureVars

\* case s := <-rd, frames that change nothing: too short, not from the PIM,
\* PA, an unknown code.
ServeSkip ==
  /\ TakeFrame
  /\ IF IsPIM(rdFrame) THEN Code(rdFrame) \notin {"B", "E", "K", "N", "U"} ELSE TRUE
  /\ UNCHANGED <<nextId, wrq, wrClosed, rq, servePc, crashed, written, outstanding, rxKind>>
  /\ UNCHANGED callerVars
  /\ UNCHANGED sinkVars
  /\ UNCHANGED pureVars

\* case 'B', 'E', 'K', 'N': respond. With no current request rq is nil and
\* respond (for 'N', rq.msg) dereferences it; for 'N' a message without a
\* control byte is indexed out of range.
ServeStatus ==
  /\ TakeFrame
  /\ IsPIM(rdFrame) /\ Code(rdFrame) \in {"B", "E", "K", "N"}
  /\ IF rq = Nil \/ (Code(rdFrame) = "N" /\ Len(rq.msg) < 2)
       THEN /\ Panic
            /\ UNCHANGED <<rq, outstanding>>
            /\ UNCHANGED callerVars
       ELSE /\ Respond(rq, PimErr(Code(rdFrame), rq.msg))
            /\ UNCHANGED <<servePc, crashed>>
  /\ UNCHANGED <<nextId, wrq, wrClosed, written, rxKind>>
  /\ UNCHANGED sinkVars
  /\ UNCHANGED pureVars

\* Bug variant: rxUPB runs its body in the calling goroutine.
RxSync == FALSE

\* rxUPB starts its goroutine without waiting for it.
RxAsync == TRUE

\* What c.rx(msg) does to the control loop and to the other goroutines.
\* The no-op returns. rxUPB returns after "go func()". A callback that calls
\* Send leaves the control loop blocked in "c.wr <- req", which only the
\* control loop receives from.
CallSink(msg) ==
  IF rxKind = "sendSync" \/ (rxKind = "rxUPB" /\ ~RxAsync /\ RxReply(msg).kind # "none")
    THEN /\ servePc' = "rxSend"
         /\ UNCHANGED <<pc, req>>
    ELSE /\ UNCHANGED servePc
         /\ IF rxKind = "rxUPB" /\ RxReply(msg).kind # "none"
              THEN LET t == CHOOSE t \in Tasks : pc[t] = "unborn" IN
                   /\ pc' = [pc EXCEPT ![t] = "start"]
                   /\ req' = [req EXCEPT ![t] = [id |-> 0, msg |-> msg]]
              ELSE UNCHANGED <<pc, req>>

\* Bug variant: reports are passed on only while no request is outstanding.
ServeReportIdle ==
  /\ TakeFrame
  /\ IsPIM(rdFrame) /\ Code(rdFrame) = "U"
  /\ IF ReportMsg(rdFrame).ok /\ rq = Nil
       THEN /\ sinkCount' = sinkCount + 1
            /\ sinkLast' = ReportMsg(rdFrame).msg
            /\ CallSink(ReportMsg(rdFrame).msg)
       ELSE UNCHANGED <<sinkCount, sinkLast, servePc, pc, req>>
  /\ UNCHANGED <<result, got, nextId, wrq, wrClosed, rq, crashed, written, outstanding, rxKind>>
  /\ UNCHANGED pureVars

\* case 'U': a message report; c.rx(msg) if it is accepted.
ServeReport ==
  /\ TakeFrame
  /\ IsPIM(rdFrame) /\ Code(rdFrame) = "U"
  /\ IF ReportMsg(rdFrame).ok
       THEN /\ sinkCount' = sinkCount + 1
            /\ sinkLast' = ReportMsg(rdFrame).msg
            /\ CallSink(ReportMsg(rdFrame).msg)
       ELSE UNCHANGED <<sinkCount, sinkLast, servePc, pc, req>>
  /\ UNCHANGED <<result, got, nextId, wrq, wrClosed, rq, crashed, written, outstanding, rxKind>>
  /\ UNCHANGED pureVars

\* case s := <-rd on the closed rd: s is "", the loop continues.
ServeRecvEOF ==
  /\ ~crashed
  /\ servePc = "select"
  /\ rdPc = "closed"
  /\ UNCHANGED vars

\* ------------------------------------------------------------------------

\* The frames of the session protocol: the status codes and one message report.
SessionFrames == StatusFrames \cup { ReportFrame(RepLink, Checksum(RepLink)) }

\* The session: concurrent callers, Close, the PIM's status frames.
Next ==
  \/ \E p \in Callers, m \in Msgs : Send(p, m)
  \/ \E p \in Procs : SendWait(p)
  \/ \E t \in Tasks : TaskRun(t)
  \/ Close
  \/ \E f \in SessionFrames : ReaderScan(f)
  \/ ReaderEnd
  \/ ServeDequeue
  \/ \E ok \in BOOLEAN : ServeWrite(ok)
  \/ ServeRecvClosed
  \/ ServeSkip
  \/ ServeStatus
  \/ ServeReport
  \/ ServeRecvEOF

Spec == Init /\ [][Next]_vars

\* Frame classification: one caller, every frame of Frames.
NextFrames ==
  \/ \E m \in Msgs : Send(1, m)
  \/ \E p \in Procs : SendWait(p)
  \/ \E t \in Tasks : TaskRun(t)
  \/ \E f \in Frames : ReaderScan(f)
  \/ ReaderEnd
  \/ ServeDequeue
  \/ \E ok \in BOOLEAN : ServeWrite(ok)
  \/ ServeSkip
  \/ ServeStatus
  \/ ServeReport
  \/ ServeRecvEOF

SpecFrames == Init /\ [][NextFrames]_vars

\* The same with the goroutines scheduled fairly: serve and every caller
\* that can take a step takes it. Nothing is assumed of the port: the PIM
\* need not send, and a caller need not call.
SpecFramesFair ==
  /\ SpecFrames
  /\ WF_vars(\E p \in Procs : SendWait(p))
  /\ WF_vars(\E t \in Tasks : TaskRun(t))
  /\ WF_vars(ServeDequeue)
  /\ WF_vars(\E ok \in BOOLEAN : ServeWrite(ok))
  /\ WF_vars(ServeSkip)
  /\ WF_vars(ServeStatus)
  /\ WF_vars(ServeReport)

\* ------------------------------------------------------------------------
\* The codec and the framer on their own: every run starts from one call
\* with arguments drawn from the sets below, on a connection that stays idle.

Nets == {NetID, 0}
Addrs == {1, 11, 255}
Cmds == {32, 34, 48}
ArgBytes == {0, 100, 255}

RECURSIVE SeqsUpTo(_, _)
SeqsUpTo(S, n) ==
  IF n = 0 THEN {<<>>}
  ELSE LET shorter == SeqsUpTo(S, n - 1) IN
    shorter \cup {Append(q, x) : q \in {r \in shorter : Len(r) = n - 1}, x \in S}

\* The shortest argument list whose length byte no longer fits in 8 bits.
LongArgs == [i \in 1..(256 - HeaderLen - 1) |-> 0]

ArgLists == SeqsUpTo(ArgBytes, MaxArgs) \cup {LongArgs}

MessageCalls ==
  [fn : {"Message"}, net : Nets, addr : Addrs, cmd : Cmds, args : ArgLists]

SumBytesIn == {0, 1, 82, 128, 255}

ChecksumCalls ==
  [fn : {"Checksum"}, msg : SeqsUpTo(SumBytesIn, MaxLen) \cup {Goto(NetID, 1, 100)}]

DataBytes == {"A", "B", "C", "D", CR}

ScanCalls == [fn : {"scanMessage"}, data : SeqsUpTo(DataBytes, MaxData), atEOF : BOOLEAN]

InitPure ==
  /\ Connected("nop")
  /\ pin \in MessageCalls \cup ChecksumCalls \cup ScanCalls
  /\ pout = NoPure

\* Conn.Message on the drawn arguments.
CallMessage ==
  /\ pin.fn = "Message"
  /\ pout = NoPure
  /\ pout' = [fn |-> "Message", msg |-> Message(pin.net, pin.addr, pin.cmd, pin.args)]
  /\ UNCHANGED <<pin, sessionVars>>

\* txUPB on the message just built; the long list is drawn for Message alone.
CallTxUPB ==
  /\ pout.fn = "Message"
  /\ Len(pout.msg) <= HeaderLen + MaxArgs
  /\ pout' = [fn |-> "txUPB", msg |-> pout.msg, wire |-> TxFrame(pout.msg)]
  /\ UNCHANGED <<pin, sessionVars>>

\* Checksum on the drawn message; the receiver's test on message plus checksum.
CallChecksum ==
  /\ pin.fn = "Checksum"
  /\ pout = NoPure
  /\ LET raw == pin.msg \o <<Checksum(pin.msg)>> IN
       pout' = [fn |-> "Checksum", raw |-> raw, ok |-> SumOk(raw), flipped |-> FALSE]
  /\ UNCHANGED <<pin, sessionVars>>

\* Bit b of byte x inverted.
FlipBit(x, b) == IF (x \div (2 ^ b)) % 2 = 1 THEN x - 2 ^ b ELSE x + 2 ^ b

\* One bit of the line is inverted on the way; the receiver's test again.
Corrupt(i, b) ==
  /\ pout.fn = "Checksum"
  /\ ~pout.flipped
  /\ i \in 1..Len(pout.raw)
  /\ LET raw == [pout.raw EXCEPT ![i] = FlipBit(@, b)] IN
       pout' = [fn |-> "Checksum", raw |-> raw, ok |-> SumOk(raw), flipped |-> TRUE]
  /\ UNCHANGED <<pin, sessionVars>>

\* One call of the split function by the scanner.
CallScan ==
  /\ pin.fn = "scanMessage"
  /\ pout = NoPure
  /\ pout' = [fn |-> "scanMessage", r |-> scanMessage(pin.data, pin.atEOF)]
  /\ UNCHANGED <<pin, sessionVars>>

\* The scanner hands out the token and calls again on what is left.
ScanAgain ==
  /\ pout.fn = "scanMessage"
  /\ pout.r.hasToken
  /\ pin' = [pin EXCEPT !.data = SubSeq(pin.data, pout.r.advance + 1, Len(pin.data))]
  /\ pout' = NoPure
  /\ UNCHANGED sessionVars

\* Nothing was produced and the port has no more to give: the scanner calls
\* once more, at end of stream.
ScanEOF ==
  /\ pout.fn = "scanMessage"
  /\ ~pout.r.hasToken /\ pout.r.err = "nil"
  /\ ~pin.atEOF
  /\ pin' = [pin EXCEPT !.atEOF = TRUE]
  /\ pout' = NoPure
  /\ UNCHANGED sessionVars

NextPure ==
  \/ CallMessage
  \/ CallTxUPB
  \/ CallChecksum
  \/ \E i \in 1..(MaxLen + 5), b \in 0..7 : Corrupt(i, b)
  \/ CallScan
  \/ ScanAgain
  \/ ScanEOF

SpecPure == InitPure /\ [][NextPure]_vars

\* ------------------------------------------------------------------------
\* Properties.

\* serve takes a frame off rd in this step.
FrameStep == rdPc = "send" /\ rdPc' = "scan"

\* The request with this id has been dequeued and responded to.
Resolved(i) == i \notin outstanding /\ \E k \in 1..Len(written) : written[k].id = i

\* C1: at most one request is outstanding, and a request is written to the
\* port only after every request written before it has been responded to.
C1_SingleInFlight ==
  /\ Cardinality(outstanding) <= 1
  /\ rq # Nil => outstanding = {rq.id}
  /\ \A k \in 1..(Len(written) - 1) : written[k].id \notin outstanding

C1_Witness == Len(written) = 2 /\ outstanding = {written[2].id} /\ wrq # <<>>

\* C2 (as claimed): whenever serve has responded to a request, the Send that made the
\* request has returned, with the outcome produced for it.
C2_NoLostOutcome ==
  \A p \in Procs :
    (req[p].id # 0 /\ Resolved(req[p].id)) => (pc[p] = "done" /\ result[p].for = req[p].id)

\* C3: with a request outstanding, PB hands errPIMBusy to its response slot,
\* PE errPIMError, PK nil, PN errMissingAck if bit 0x10 of the message's
\* control byte is set and nil if it is clear; the session is Idle after the
\* step, a caller waiting on the slot returns just that outcome, and no other
\* caller returns anything.
C3_Outcome(f, msg) ==
  IF f = <<"P", "B">> THEN "errPIMBusy"
  ELSE IF f = <<"P", "E">> THEN "errPIMError"
  ELSE IF f = <<"P", "K">> THEN "nil"
  ELSE IF (msg[2] \div 16) % 2 = 1 THEN "errMissingAck" ELSE "nil"

C3_Case ==
  /\ FrameStep
  /\ rq # Nil
  /\ rdFrame \in {<<"P", "B">>, <<"P", "E">>, <<"P", "K">>, <<"P", "N">>}
  /\ rdFrame = <<"P", "N">> => Len(rq.msg) >= 2

C3_ResponseMapping ==
  [][C3_Case =>
       /\ rq' = Nil /\ servePc' = "select" /\ ~crashed'
       /\ \A p \in Procs :
            /\ (pc[p] = "recv" /\ req[p].id = rq.id) =>
                 (pc'[p] = "done" /\ result'[p] = [for |-> rq.id, err |-> C3_Outcome(rdFrame, rq.msg)])
            /\ result'[p] # result[p] => (pc[p] = "recv" /\ req[p].id = rq.id)]_vars

C3_Witness ==
  \E p, q \in Procs :
    /\ result[p].err = "errMissingAck"
    /\ result[q].err = "nil" /\ Len(req[q].msg) >= 2 /\ ~WantsAck(req[q].msg)

\* C4 (as claimed): a Send issued after Close returns without a panic.
C4_SendAfterClose == \A p \in Procs : pc[p] # "panicSendClosed"

\* C5 (as claimed): after Close no Send that was in flight has panicked and the control
\* loop has not panicked.
C5_CloseInFlight ==
  wrClosed => (servePc # "panicked" /\ \A p \in Procs : pc[p] # "panicBlocked")

\* C6: requests are written to the port in the order in which their Send
\* calls blocked on c.wr (the order of the request ids).
C6_FIFO == \A k \in 1..Len(written) : written[k].id = k

C6_Witness == Len(written) >= 2 /\ wrq # <<>>

\* C7: a Send returns only an outcome produced for its own request, and no
\* response channel carries more than one outcome.
C7_NoCrossTalk ==
  /\ \A p \in Procs : result[p] # NoResult => (pc[p] = "done" /\ result[p].for = req[p].id)
  /\ \A i \in Ids : got[i] <= 1

C7_Witness ==
  \E p, q \in Procs : p # q /\ pc[p] = "done" /\ pc[q] = "done" /\ result[p].err # result[q].err

\* C8: a PU frame reaches the sink if and only if its payload hex-decodes,
\* has at least 7 bytes, ends in the checksum of the bytes before it and has
\* retransmit bits zero; the sink is then called once, with the bytes minus
\* the checksum. No other step calls the sink.
C8_Bytes(f) == HexDecode(SubSeq(f, 3, Len(f)))

C8_Accepted(f) ==
  /\ HexOk(SubSeq(f, 3, Len(f)))
  /\ Len(C8_Bytes(f)) >= 7
  /\ (SumBytes(C8_Bytes(f))) % 256 = 0
  /\ C8_Bytes(f)[2] % 4 = 0

C8_IsReport(f) == Len(f) >= 2 /\ f[1] = "P" /\ f[2] = "U"

C8_ReportFiltering ==
  [][IF FrameStep /\ C8_IsReport(rdFrame) /\ C8_Accepted(rdFrame)
       THEN /\ sinkCount' = sinkCount + 1
            /\ sinkLast' = SubSeq(C8_Bytes(rdFrame), 1, Len(C8_Bytes(rdFrame)) - 1)
       ELSE /\ sinkCount' = sinkCount
            /\ sinkLast' = sinkLast]_vars

C8_Witness == sinkCount = 1 /\ sinkLast = RepBadLen /\ nframes = 2 /\ rdPc = "scan"

C10_FailStep == Len(written') = Len(written) + 1 /\ ~written'[Len(written')].ok

C10_WriteFailureLocal ==
  [][C10_FailStep =>
       /\ written'[Len(written')].id = rq.id
       /\ rq' = Nil /\ outstanding' = {} /\ servePc' = "select"
       /\ ~crashed' /\ wrClosed' = wrClosed /\ wrq' = wrq
       /\ \A p \in Procs :
            /\ (pc[p] = "recv" /\ req[p].id = rq.id) =>
                 (pc'[p] = "done" /\ result'[p] = [for |-> rq.id, err |-> "errWrite"])
            /\ result'[p] # result[p] => (pc[p] = "recv" /\ req[p].id = rq.id)
       /\ (wrq' # <<>> /\ ~wrClosed') => (ENABLED ServeDequeue)']_vars

C10_Witness ==
  \E j, k \in 1..Len(written) :
    /\ j < k /\ ~written[j].ok /\ written[k].ok
    /\ \E p \in Procs : req[p].id = written[j].id /\ result[p].err = "errWrite"

\* ------------------------------------------------------------------------
\* Properties of the codec and the framer, checked under SpecPure.

C11_Example ==
  pin = [fn |-> "Message", net |-> NetID, addr |-> 1, cmd |-> 34, args |-> <<100>>]

C11_Payload == <<"0","8","1","0","B","4","0","1","F","F","2","2","6","4">>

\* C11 as stated: the set-level example goes out as op-code 0x14, the
\* payload 08 10 B4 01 FF 22 64 in uppercase hexadecimal, the checksum
\* byte 97 and a carriage return.
C11_WireAsStated ==
  (C11_Example /\ pout.fn = "txUPB") =>
    pout.wire = [op |-> 20, hex |-> C11_Payload \o <<"9", "7">>, end |-> "\r"]

\* C11: the set-level example for network 0xB4, destination 0x01, level
\* 0x64 goes out as op-code 0x14, the payload 08 10 B4 01 FF 22 64 in
\* uppercase hexadecimal, the checksum byte AE and a carriage return: the
\* checksum of the seven payload bytes is 0xAE.
C11_WireExample ==
  (C11_Example /\ pout.fn = "txUPB") =>
    /\ pout.msg = Goto(NetID, 1, 100)
    /\ Checksum(pout.msg) = 174
    /\ pout.wire = [op |-> 20, hex |-> C11_Payload \o <<"A", "E">>, end |-> "\r"]

C11_Witness == C11_Example /\ pout.fn = "txUPB" /\ Len(pout.wire.hex) = 16

C12_Built == pin.fn = "Message" /\ pout.fn = "Message"

\* C12 as stated: the length byte of every message built equals 6 + number
\* of arguments + 1.
C12_LenAsStated == C12_Built => pout.msg[1] = 6 + Len(pin.args) + 1

\* C12: Message returns [LEN, 0x10, network id, destination, 0xFF, command]
\* followed by the arguments unchanged, where LEN is 6 + number of arguments
\* + 1 truncated to 8 bits, which is that sum itself for up to 248
\* arguments; the set-level example gives 08 10 B4 01 FF 22 64.
C12_MessageLayout ==
  C12_Built =>
    /\ pout.msg =
         <<(6 + Len(pin.args) + 1) % 256, 16, pin.net, pin.addr, 255, pin.cmd>> \o pin.args
    /\ Len(pin.args) <= 248 => pout.msg[1] = 6 + Len(pin.args) + 1
    /\ C11_Example => pout.msg = <<8, 16, 180, 1, 255, 34, 100>>

C12_Witness == C12_Built /\ Len(pin.args) = 249 /\ pout.msg[1] = 0

C13_Checked == pin.fn = "Checksum" /\ pout.fn = "Checksum"

\* C13: a message followed by its checksum passes the receiver's test and
\* all its bytes sum to 0 modulo 256; with any single bit of the message or
\* of the checksum byte inverted, the test fails.
C13_RoundTrip ==
  C13_Checked =>
    /\ ~pout.flipped =>
         /\ pout.raw = pin.msg \o <<Checksum(pin.msg)>>
         /\ pout.ok
         /\ SumBytes(pout.raw) = 0
    /\ pout.flipped =>
         /\ Len(pout.raw) = Len(pin.msg) + 1
         /\ ~pout.ok
         /\ SumBytes(pout.raw) # 0

C13_Witness ==
  /\ C13_Checked /\ pout.flipped /\ ~pout.ok
  /\ pin.msg = Goto(NetID, 1, 100)
  /\ pout.raw[Len(pout.raw)] = 175

C14_Called == pin.fn = "scanMessage" /\ pout.fn = "scanMessage"

C14_HasCR == \E i \in 1..Len(pin.data) : pin.data[i] = "\r"

\* Number of bytes in front of the first carriage return.
C14_Before ==
  CHOOSE n \in 0..(Len(pin.data) - 1) :
    pin.data[n + 1] = "\r" /\ \A j \in 1..n : pin.data[j] # "\r"

\* C14: with a carriage return in the data the frame is the bytes in front
\* of the first one and one byte more than the frame is consumed ("AB\rCD"
\* gives "AB" and 3); without one and before end of stream nothing is
\* produced or consumed; without one at end of stream, non-empty data give
\* the truncated-frame error and no frame, and empty data end the sequence
\* without an error; no frame contains a carriage return.
C14_Framing ==
  C14_Called =>
    LET d == pin.data
        r == pout.r IN
    /\ C14_HasCR =>
         /\ r.hasToken /\ r.err = "nil"
         /\ r.token = SubSeq(d, 1, C14_Before)
         /\ r.advance = C14_Before + 1
    /\ (~C14_HasCR /\ ~pin.atEOF) => (~r.hasToken /\ r.advance = 0 /\ r.err = "nil")
    /\ (~C14_HasCR /\ pin.atEOF /\ d # <<>>) => (~r.hasToken /\ r.err = "errTruncated")
    /\ (pin.atEOF /\ d = <<>>) => (~r.hasToken /\ r.advance = 0 /\ r.err = "nil")
    /\ r.hasToken => \A i \in 1..Len(r.token) : r.token[i] # "\r"
    /\ (d = <<"A", "B", "\r", "C", "D">> /\ ~pin.atEOF) =>
         (r.token = <<"A", "B">> /\ r.advance = 3)

C14_Witness ==
  /\ C14_Called
  /\ pin.data = <<"A", "B", "\r", "C", "D">> /\ ~pin.atEOF
  /\ pout.r.token = <<"A", "B">>

\* ------------------------------------------------------------------------
\* Properties of the session: inbound frames and the missing timeout.

\* Serve is in its select with this frame waiting on rd and a request outstanding.
AwaitingWith(f) ==
  /\ ~crashed /\ servePc = "select" /\ rq # Nil /\ outstanding = {rq.id}
  /\ rdPc = "send" /\ rdFrame = f

\* Frames the claim calls malformed: shorter than two characters, not
\* starting with 'P', with an unknown second character, or a PU frame whose
\* payload does not hex-decode, is shorter than 7 bytes or fails the checksum.
C15_Malformed(f) ==
  IF Len(f) < 2 THEN TRUE
  ELSE IF f[1] # "P" THEN TRUE
  ELSE IF f[2] = "U"
    THEN ~(/\ HexOk(SubSeq(f, 3, Len(f)))
           /\ Len(C8_Bytes(f)) >= 7
           /\ SumBytes(C8_Bytes(f)) = 0)
  ELSE f[2] \notin {"A", "B", "E", "K", "N"}

\* C15: the step that takes a malformed frame off rd leaves the current
\* request, the outstanding set, every caller and every outcome as they
\* were, does not call the sink, and leaves serve in its select, not crashed.
C15_MalformedDiscarded ==
  [][(FrameStep /\ C15_Malformed(rdFrame)) =>
       /\ rq' = rq /\ outstanding' = outstanding
       /\ pc' = pc /\ result' = result /\ got' = got
       /\ written' = written /\ wrq' = wrq
       /\ sinkCount' = sinkCount /\ sinkLast' = sinkLast
       /\ servePc' = "select" /\ ~crashed']_vars

C15_Witness ==
  /\ AwaitingWith(ReportFrame(RepOther, (Checksum(RepOther) + 1) % 256))
  /\ nframes = 2 /\ sinkCount = 0
  /\ \E p \in Procs : pc[p] = "recv" /\ req[p].id = rq.id

\* C16 (as claimed): the step that takes a PB, PE, PK or PN frame off rd
\* while no request is outstanding leaves serve running in its select, the
\* session Idle and every caller and outcome as they were.
C16_IdleStatusHarmless ==
  [][(FrameStep /\ rq = Nil
        /\ rdFrame \in {<<"P", "B">>, <<"P", "E">>, <<"P", "K">>, <<"P", "N">>}) =>
       /\ ~crashed' /\ servePc' = "select"
       /\ rq' = Nil
       /\ pc' = pc /\ result' = result]_vars

C17_RespondStep == C3_Case \/ C10_FailStep

C17_Parked == \E p \in Procs : pc[p] = "recv" /\ req[p].id = rq.id

\* C17: the step in which an outcome is produced (a status frame for the
\* current request, or its failed write) ends with the session Idle and
\* serve in its select whether or not the caller is parked on the response
\* channel; if it is not, no caller changes and no outcome is recorded; a
\* Send blocked on c.wr can be dequeued in the state the step leads to.
C17_RespondNeverBlocks ==
  [][C17_RespondStep =>
       /\ rq' = Nil /\ outstanding' = {}
       /\ servePc' = "select" /\ ~crashed'
       /\ ~C17_Parked => (pc' = pc /\ result' = result /\ got' = got)
       /\ (wrq' # <<>> /\ ~wrClosed') => (ENABLED ServeDequeue)']_vars

C17_Witness ==
  /\ Len(written) = 2 /\ rq # Nil /\ rq.id = written[2].id
  /\ \E p \in Procs :
       /\ req[p].id = written[1].id /\ written[1].ok
       /\ pc[p] = "recv" /\ result[p] = NoResult

\* C18: the step that takes a PU frame off rd while a request is outstanding
\* calls the sink exactly when the frame is acceptable, with the bytes
\* minus the checksum, and leaves the current request, the outstanding set,
\* the outcomes and the caller of the current request as they were.
C18_ReportWhileAwaiting ==
  [][(FrameStep /\ C8_IsReport(rdFrame) /\ rq # Nil) =>
       /\ rq' = rq /\ outstanding' = outstanding
       /\ result' = result /\ got' = got /\ written' = written
       /\ ~crashed'
       /\ \A p \in Procs : req[p].id = rq.id => pc'[p] = pc[p]
       /\ IF C8_Accepted(rdFrame)
            THEN /\ sinkCount' = sinkCount + 1
                 /\ sinkLast' = SubSeq(C8_Bytes(rdFrame), 1, Len(C8_Bytes(rdFrame)) - 1)
            ELSE /\ sinkCount' = sinkCount
                 /\ sinkLast' = sinkLast]_vars

C18_Witness ==
  /\ AwaitingWith(ReportFrame(RepState, Checksum(RepState)))
  /\ rxKind = "rxUPB"
  /\ \E p \in Callers : pc[p] = "recv" /\ req[p].id = rq.id

\* C19: the step that takes PA off rd while a request is outstanding changes
\* nothing but the reader: the same request stays current, no caller and no
\* outcome changes, nothing is dequeued or written, and serve is back in
\* its select, where PK, PN, PB or PE resolves that request.
C19_AcceptNoOp ==
  [][(FrameStep /\ rdFrame = <<"P", "A">> /\ rq # Nil) =>
       /\ rq' = rq /\ outstanding' = outstanding
       /\ pc' = pc /\ result' = result /\ got' = got
       /\ wrq' = wrq /\ written' = written
       /\ sinkCount' = sinkCount
       /\ servePc' = "select" /\ ~crashed']_vars

C19_Witness ==
  /\ AwaitingWith(<<"P", "A">>)
  /\ nframes = 1
  /\ \E p \in Procs : pc[p] = "recv" /\ req[p].id = rq.id

\* The current request has been written to the port successfully.
C20_Awaiting ==
  /\ rq # Nil
  /\ Len(written) > 0
  /\ written[Len(written)] = [id |-> rq.id, ok |-> TRUE]

C20_Answer ==
  FrameStep /\ rdFrame \in {<<"P", "B">>, <<"P", "E">>, <<"P", "K">>, <<"P", "N">>}

C21_Mismatch(f) ==
  /\ C8_IsReport(f) /\ C8_Accepted(f)
  /\ C8_Bytes(f)[1] % 32 # Len(C8_Bytes(f))

\* C21: the step that takes off rd a PU frame of at least 7 bytes with a
\* matching checksum and zero retransmit bits, whose length field (low 5
\* bits of byte 0) differs from the number of decoded bytes, calls the sink
\* once with the bytes minus the checksum.
C21_LengthAdvisory ==
  [][(FrameStep /\ C21_Mismatch(rdFrame)) =>
       /\ sinkCount' = sinkCount + 1
       /\ sinkLast' = SubSeq(C8_Bytes(rdFrame), 1, Len(C8_Bytes(rdFrame)) - 1)
       /\ ~crashed']_vars

C21_Witness ==
  /\ sinkCount = 2 /\ sinkLast = RepBadLen
  /\ RepBadLen[1] % 32 # Len(RepBadLen) + 1
  /\ rdPc = "scan" /\ ~crashed

\* C22 (as claimed): with a request outstanding, the step that takes off rd
\* a frame that is neither exactly PB, PE, PK or PN nor a PU report leaves
\* the request outstanding and every caller and outcome as they were.
C22_OnlyExactCodes ==
  [][(/\ FrameStep /\ rq # Nil
      /\ ~C8_IsReport(rdFrame)
      /\ rdFrame \notin {<<"P", "B">>, <<"P", "E">>, <<"P", "K">>, <<"P", "N">>}) =>
       /\ rq' = rq /\ outstanding' = outstanding
       /\ pc' = pc /\ result' = result
       /\ servePc' = "select" /\ ~crashed']_vars

\* C23 (as claimed): a request that is outstanding, written to the port,
\* when the reader has ended is resolved (the sink being one that returns).
C23_ResolvedAfterReaderEnd ==
  (rdPc = "closed" /\ C20_Awaiting /\ ~crashed /\ rxKind # "sendSync")
    ~> (rq = Nil \/ crashed)

====
